---- MODULE Spec2Model ----
(***************************************************************************)
(* Model of the JNI bridge wrappers of extractous                          *)
(* (extract-core/src/tika/wrappers.rs): the streaming adapter              *)
(* JReaderInputStream (read and drop), the two result unwrappers           *)
(* JStringResult::new and JReaderResult::new, and the three config         *)
(* projectors JPDFParserConfig::new, JOfficeParserConfig::new and          *)
(* JTesseractOcrConfig::new.                                               *)
(*                                                                         *)
(* The foreign (Java) side is the environment: an envelope object, a       *)
(* ReaderInputStream over the extracted text, config objects with setters, *)
(* and the per-thread pending-exception flag of the JNI environment.       *)
(***************************************************************************)
EXTENDS Integers, Sequences, FiniteSets, TLC

\* ------------------------------------------------------------------------
\* Bounds of the model
\* ------------------------------------------------------------------------

\* longest foreign text (in characters) of a document, message or language
MaxText == 2
\* a caller buffer has at most MaxBuf bytes, or is one of BigLens
MaxBuf == 2
\* reads that a consumer issues after the foreign reader reported end of stream
MaxEosReads == 1

\* ------------------------------------------------------------------------
\* Integer widths
\* ------------------------------------------------------------------------

\* jsize is a 32-bit signed integer: its largest value, 2^31 - 1
JsizeMax == 2147483647

\* A host length (usize) is kept as [q, r], meaning q * 2^31 + r with
\* 0 <= r < 2^31, so that lengths beyond the 32-bit range stay representable.
\* The lengths beyond the jsize range that callers pass: 2^31, 2^32, 2^32 + 1
BigLens == {[q |-> 1, r |-> 0], [q |-> 2, r |-> 0], [q |-> 2, r |-> 1]}

BufLens == {[q |-> 0, r |-> n] : n \in 0..MaxBuf} \cup BigLens

\* `buf.len() as jsize`: the low 32 bits of the length, read as signed.
\* Bit 31 of q * 2^31 + r is the parity of q.
AsJsize(len) ==
    IF len.q % 2 = 0 THEN len.r ELSE (len.r - JsizeMax) - 1

\* mutant: the i8 is converted by value (its magnitude), not reinterpreted
U8_Abs(b) == IF b < 0 THEN 0 - b ELSE b

\* cast_slice_mut: u8 and i8 share their bits; the byte a Java i8 shows as u8
U8(b) == IF b < 0 THEN b + 256 ELSE b

\* the Java byte (i8) holding the bits of an unsigned byte value
JByte(u) == IF u > 127 THEN u - 256 ELSE u

\* ------------------------------------------------------------------------
\* Strings: a foreign string is a sequence of characters, a host String is
\* the sequence of its UTF-8 bytes
\* ------------------------------------------------------------------------

Chars == {65, 233}

Texts == UNION {[1..n -> Chars] : n \in 0..MaxText}

Utf8OfChar(c) ==
    IF c < 128 THEN <<c>> ELSE <<192 + (c \div 64), 128 + (c % 64)>>

RECURSIVE Utf8Encode(_)
Utf8Encode(chars) ==
    IF chars = <<>> THEN <<>>
    ELSE Utf8OfChar(Head(chars)) \o Utf8Encode(Tail(chars))

RECURSIVE Utf8Decode(_)
Utf8Decode(bytes) ==
    IF bytes = <<>> THEN <<>>
    ELSE IF Head(bytes) < 128
         THEN <<Head(bytes)>> \o Utf8Decode(Tail(bytes))
         ELSE <<(Head(bytes) - 192) * 64 + (Head(Tail(bytes)) - 128)>>
              \o Utf8Decode(Tail(Tail(bytes)))

\* jni_jobject_to_string: the host String of a foreign string
jni_jobject_to_string(jstr) == Utf8Encode(jstr)

\* jni_new_string_as_jvalue: the foreign string of a host String
jni_new_string_as_jvalue(str) == Utf8Decode(str)

\* The bytes the foreign ReaderInputStream delivers for a text: its UTF-8
\* encoding, held in a Java byte[] (signed bytes)
RECURSIVE JBytes(_)
JBytes(us) ==
    IF us = <<>> THEN <<>> ELSE <<JByte(Head(us))>> \o JBytes(Tail(us))

ReaderBytes(text) == JBytes(Utf8Encode(text))

\* ------------------------------------------------------------------------
\* State
\* ------------------------------------------------------------------------

VARIABLES
    envelope,   \* the foreign result envelope of the parsed document
    pending,    \* the JNI environment has a pending foreign exception
    calls,      \* foreign calls issued by the last bridge operation, in order
    strRes,     \* what JStringResult::new returned
    rdrRes,     \* what JReaderResult::new returned
    adapter,    \* "none", "live" or "dropped": the JReaderInputStream
    reader,     \* the foreign reader: content, position, closes, reported EOF
    buf,        \* the caller's buffer after the last read
    last,       \* the last adapter operation and its outcome
    collected,  \* the bytes a consumer has gathered from successful reads
    hist,       \* what happened to the stream so far
    cfgKind,    \* which config struct the host holds: "pdf", "office", "ocr"
    hostCfg,    \* the host configuration struct
    cfgRes      \* what the config projector returned

vars == <<envelope, pending, calls, strRes, rdrRes, adapter, reader, buf,
          last, collected, hist, cfgKind, hostCfg, cfgRes>>

bridgeVars == <<envelope, strRes, rdrRes, adapter, reader, buf, last,
                collected, hist>>

configVars == <<cfgKind, hostCfg, cfgRes>>

\* ------------------------------------------------------------------------
\* Result envelopes (ai.yobix.StringResult / ai.yobix.ReaderResult)
\* ------------------------------------------------------------------------

\* getStatus returns a Java byte
Statuses == {-1, 0, 1, 2, 3, 99}

Envelopes ==
    {[isError |-> TRUE, status |-> s, msg |-> m, content |-> <<>>] :
        s \in Statuses, m \in Texts}
    \cup
    {[isError |-> FALSE, status |-> 0, msg |-> <<>>, content |-> t] :
        t \in Texts}

NoResult == [kind |-> "none", msg |-> <<>>, content |-> <<>>]

Ok(payload) == [kind |-> "Ok", msg |-> <<>>, content |-> payload]

Err(kind, msg) == [kind |-> kind, msg |-> msg, content |-> <<>>]

\* mutant: failures of the bridge reported as the catch-all document error
JniError_AsUnknown == Err("Unknown", <<>>)

\* a failure of the bridge itself (jni::errors::Error converted by `?`)
JniError == Err("JniError", <<>>)

\* mutant: the arms of statuses 1 and 2 exchanged
StatusToError_Swapped(status, msg) ==
    IF status = 1 THEN Err("ParseError", msg)
    ELSE IF status = 2 THEN Err("IoError", msg)
    ELSE Err("Unknown", msg)

\* match status { 1 => IoError, 2 => ParseError, _ => Unknown }
StatusToError(status, msg) ==
    IF status = 1 THEN Err("IoError", msg)
    ELSE IF status = 2 THEN Err("ParseError", msg)
    ELSE Err("Unknown", msg)


\* ------------------------------------------------------------------------
\* Exception translator (jni_utils::jni_check_exception)
\* ------------------------------------------------------------------------

\* Describes and clears a pending exception, and tells its caller whether
\* there was one.
jni_check_exception(pend) == [pending |-> FALSE, raised |-> pend]

\* ------------------------------------------------------------------------
\* Result unwrappers
\* ------------------------------------------------------------------------

UnwrapCalls == {"isError", "getStatus", "getErrorMessage", "getContent",
                "getReader", "jni_jobject_to_string"}

\* how a failing foreign call fails: the Java method raised (the exception
\* stays pending), or the JNI layer refused (lookup or type error)
FailKinds == {"exception", "jni"}

Unwrapped(seq, res) == [calls |-> seq, res |-> res]

\* JStringResult::new. failAt names the foreign call that fails, or "none".
JStringResult_new(obj, failAt) ==
    IF failAt = "isError" THEN Unwrapped(<<"isError">>, JniError)
    ELSE IF obj.isError
    THEN IF failAt = "getStatus"
         THEN Unwrapped(<<"isError", "getStatus">>, JniError)
         ELSE IF failAt = "getErrorMessage"
         THEN Unwrapped(<<"isError", "getStatus", "getErrorMessage">>,
                        JniError)
         ELSE IF failAt = "jni_jobject_to_string"
         THEN Unwrapped(<<"isError", "getStatus", "getErrorMessage",
                          "jni_jobject_to_string">>, JniError)
         ELSE Unwrapped(<<"isError", "getStatus", "getErrorMessage",
                          "jni_jobject_to_string">>,
                        StatusToError(obj.status,
                                      jni_jobject_to_string(obj.msg)))
    ELSE IF failAt = "getContent"
         THEN Unwrapped(<<"isError", "getContent">>, JniError)
         ELSE IF failAt = "jni_jobject_to_string"
         THEN Unwrapped(<<"isError", "getContent",
                          "jni_jobject_to_string">>, JniError)
         ELSE Unwrapped(<<"isError", "getContent",
                          "jni_jobject_to_string">>,
                        Ok(jni_jobject_to_string(obj.content)))

\* mutant: the reader is fetched before the error flag is looked at
JReaderResult_new_EagerPayload(obj, failAt) ==
    IF failAt = "isError" THEN Unwrapped(<<"isError">>, JniError)
    ELSE IF failAt = "getReader"
    THEN Unwrapped(<<"isError", "getReader">>, JniError)
    ELSE IF obj.isError
    THEN Unwrapped(<<"isError", "getReader", "getStatus",
                     "getErrorMessage", "jni_jobject_to_string">>,
                   StatusToError(obj.status,
                                 jni_jobject_to_string(obj.msg)))
    ELSE Unwrapped(<<"isError", "getReader">>,
                   Ok(ReaderBytes(obj.content)))

\* JReaderResult::new. On success the payload is the foreign reader, which
\* delivers the bytes of the document's text.
JReaderResult_new(obj, failAt) ==
    IF failAt = "isError" THEN Unwrapped(<<"isError">>, JniError)
    ELSE IF obj.isError
    THEN IF failAt = "getStatus"
         THEN Unwrapped(<<"isError", "getStatus">>, JniError)
         ELSE IF failAt = "getErrorMessage"
         THEN Unwrapped(<<"isError", "getStatus", "getErrorMessage">>,
                        JniError)
         ELSE IF failAt = "jni_jobject_to_string"
         THEN Unwrapped(<<"isError", "getStatus", "getErrorMessage",
                          "jni_jobject_to_string">>, JniError)
         ELSE Unwrapped(<<"isError", "getStatus", "getErrorMessage",
                          "jni_jobject_to_string">>,
                        StatusToError(obj.status,
                                      jni_jobject_to_string(obj.msg)))
    ELSE IF failAt = "getReader"
         THEN Unwrapped(<<"isError", "getReader">>, JniError)
         ELSE Unwrapped(<<"isError", "getReader">>,
                        Ok(ReaderBytes(obj.content)))

\* A foreign call made while an exception is pending comes back as an error:
\* the first call of the unwrapper fails.
FirstFailure(pend, failAt) == IF pend THEN "isError" ELSE failAt

\* the pending flag after an unwrapper or projector returned `res`
PendingAfter(pend, res, how) ==
    pend \/ (res = JniError /\ how = "exception")

\* `calls` names the operation, the foreign calls it issued in order, and
\* the call the environment made fail ("none": no call was made to fail)
NoCalls == [op |-> "none", seq |-> <<>>, failAt |-> "none"]

StringNew(failAt, how) ==
    /\ strRes = NoResult
    /\ LET o == JStringResult_new(envelope, FirstFailure(pending, failAt))
       IN /\ strRes' = o.res
          /\ calls' = [op |-> "JStringResult::new", seq |-> o.calls,
                       failAt |-> FirstFailure(pending, failAt)]
          /\ pending' = PendingAfter(pending, o.res, how)
    /\ UNCHANGED <<envelope, rdrRes, adapter, reader, buf, last, collected,
                   hist, configVars>>

ReaderNew(failAt, how) ==
    /\ rdrRes = NoResult
    /\ LET o == JReaderResult_new(envelope, FirstFailure(pending, failAt))
       IN /\ rdrRes' = o.res
          /\ calls' = [op |-> "JReaderResult::new", seq |-> o.calls,
                       failAt |-> FirstFailure(pending, failAt)]
          /\ pending' = PendingAfter(pending, o.res, how)
    /\ UNCHANGED <<envelope, strRes, adapter, reader, buf, last, collected,
                   hist, configVars>>


\* ------------------------------------------------------------------------
\* Streaming adapter (JReaderInputStream)
\* ------------------------------------------------------------------------

Min(a, b) == IF a < b THEN a ELSE b

\* the bytes a caller's buffer holds before a read
Fill == {170}

\* The model keeps the first positions of the caller's buffer; a buffer
\* of 2^31 bytes or more keeps its first one.
Tracked(len) == IF len.q = 0 THEN len.r ELSE 1

FreshBuf(len, fill) ==
    [len |-> len, data |-> [i \in 1..Tracked(len) |-> fill]]

\* mutant: the new array holds ones instead of zeros
new_byte_array_Dirty(length) == [i \in 1..length |-> 1]

\* env.new_byte_array(length): a Java byte[length], all zero
new_byte_array(length) == [i \in 1..length |-> 0]

\* The foreign reader's read(array, 0, length): 0 for a zero length, -1 at
\* the end of the content, otherwise as many bytes as fit, stored from
\* array[0] on.
ForeignRead(rd, array, length) ==
    LET remaining == Len(rd.content) - rd.pos
        n == Min(length, remaining)
    IN IF length = 0 THEN [report |-> 0, array |-> array, rd |-> rd]
       ELSE IF remaining = 0
       THEN [report |-> -1, array |-> array, rd |-> rd]
       ELSE [report |-> n,
             array  |-> [i \in 1..Len(array) |->
                            IF i <= n THEN rd.content[rd.pos + i]
                            ELSE array[i]],
             rd     |-> [rd EXCEPT !.pos = rd.pos + n]]

\* mutant: the region copied is one element short
get_byte_array_region_Short(array, b) ==
    [i \in 1..Len(b.data) |->
        IF i <= AsJsize(b.len) - 1 THEN U8(array[i]) ELSE b.data[i]]

\* env.get_byte_array_region(array, 0, buf_of_i8): copies as many elements
\* as the i8 view of the buffer is long (its length taken as a jsize), each
\* reinterpreted as u8
get_byte_array_region(array, b) ==
    [i \in 1..Len(b.data) |->
        IF i <= AsJsize(b.len) THEN U8(array[i]) ELSE b.data[i]]

\* `num_read_bytes as usize`: a negative i32 wraps to v + 2^64
AsUsize(v) == [wrap |-> v < 0, v |-> v]

\* mutant: the end-of-stream sentinel is not tested
ReadCount_NoSentinel(num_read_bytes) == AsUsize(num_read_bytes)

\* if num_read_bytes == -1 { Ok(0) } else { Ok(num_read_bytes as usize) }
ReadCount(num_read_bytes) ==
    IF num_read_bytes = -1 THEN AsUsize(0) ELSE AsUsize(num_read_bytes)

NoCount == AsUsize(0)

\* no foreign read was issued (a report is <<>> or <<the int reported>>)
NoReport == <<>>

\* what the environment does to one read: nothing, thread attachment fails,
\* the byte array cannot be allocated, or the foreign read raises after
\* having consumed `adv` bytes
\* bytes a foreign read may have consumed when it raises
Loss == {0, 1}

ReadEnvs ==
    {[fail |-> f, adv |-> 0] : f \in {"none", "attach", "alloc"}}
    \cup {[fail |-> "throw", adv |-> a] : a \in Loss}

ReadOutcome(ok, n, report, data, rd, pend, seq, attached) ==
    [ok |-> ok, n |-> n, report |-> report, data |-> data, rd |-> rd,
     pending |-> pend, calls |-> seq, attached |-> attached]

\* mutant: the call's result is unwrapped before the translator runs, and
\* the buffer is copied before the result is looked at
AdapterRead_CheckAfter(rd, b, pend, env) ==
    LET length == AsJsize(b.len)
    IN IF env.fail = "attach"
       THEN ReadOutcome(FALSE, NoCount, NoReport, b.data, rd, pend, <<>>,
                        FALSE)
       ELSE IF length < 0 \/ pend \/ env.fail = "alloc"
       THEN ReadOutcome(FALSE, NoCount, NoReport, b.data, rd, TRUE,
                        <<"new_byte_array">>, TRUE)
       ELSE IF env.fail = "throw"
       THEN LET adv == Min(env.adv, Min(length, Len(rd.content) - rd.pos))
            IN ReadOutcome(FALSE, NoCount, NoReport,
                           get_byte_array_region(new_byte_array(length), b),
                           [rd EXCEPT !.pos = rd.pos + adv], TRUE,
                           <<"new_byte_array", "read",
                             "get_byte_array_region">>, TRUE)
       ELSE LET fr == ForeignRead(rd, new_byte_array(length), length)
                tr == jni_check_exception(FALSE)
            IN ReadOutcome(TRUE, ReadCount(fr.report), <<fr.report>>,
                           get_byte_array_region(fr.array, b), fr.rd,
                           tr.pending,
                           <<"new_byte_array", "read",
                             "get_byte_array_region">>, TRUE)

\* JReaderInputStream::read, given what the foreign read does when it is
\* reached and returns (fr: its report, the array and the reader after it)
AdapterReadFrom(rd, b, pend, env, fr) ==
    LET length == AsJsize(b.len)
    IN IF env.fail = "attach"
       THEN \* attach_current_thread failed
            ReadOutcome(FALSE, NoCount, NoReport, b.data, rd, pend, <<>>,
                        FALSE)
       ELSE IF length < 0 \/ pend \/ env.fail = "alloc"
       THEN \* new_byte_array failed (a negative length, no memory, or an
            \* exception already pending); its exception is left pending
            ReadOutcome(FALSE, NoCount, NoReport, b.data, rd, TRUE,
                        <<"new_byte_array">>, TRUE)
       ELSE IF env.fail = "throw"
       THEN \* the foreign read raised: the translator clears the exception,
            \* and its error or the call's error is returned before any copy
            LET tr == jni_check_exception(TRUE)
                adv == Min(env.adv, Min(length, Len(rd.content) - rd.pos))
            IN ReadOutcome(FALSE, NoCount, NoReport, b.data,
                           [rd EXCEPT !.pos = rd.pos + adv], tr.pending,
                           <<"new_byte_array", "read">>, TRUE)
       ELSE LET tr == jni_check_exception(FALSE)
            IN ReadOutcome(TRUE, ReadCount(fr.report), <<fr.report>>,
                           get_byte_array_region(fr.array, b), fr.rd,
                           tr.pending,
                           <<"new_byte_array", "read",
                             "get_byte_array_region">>, TRUE)

\* JReaderInputStream::read on the reader the unwrapper handed over
AdapterRead(rd, b, pend, env) ==
    AdapterReadFrom(rd, b, pend, env,
                    ForeignRead(rd, new_byte_array(AsJsize(b.len)),
                                AsJsize(b.len)))

\* what the environment does to a drop: attachment fails, or close raises
DropEnvs == {[attach |-> a, closeThrows |-> c] : a, c \in BOOLEAN}

\* mutant: the result of close is unwrapped instead of ignored
AdapterDrop_Unwrap(rd, pend, env) ==
    IF env.attach
    THEN LET tr == jni_check_exception(pend \/ env.closeThrows)
         IN [rd |-> [rd EXCEPT !.closeCalls = rd.closeCalls + 1],
             pending |-> tr.pending, calls |-> <<"close">>,
             attached |-> TRUE,
             outcome |-> IF tr.raised THEN "panicked" ELSE "returned"]
    ELSE [rd |-> rd, pending |-> pend, calls |-> <<>>, attached |-> FALSE,
          outcome |-> "panicked"]

\* mutant: close is called through an environment kept from an earlier
\* attachment, whether or not this attachment succeeded
AdapterDrop_AlwaysClose(rd, pend, env) ==
    LET tr == jni_check_exception(pend \/ env.closeThrows)
    IN [rd |-> [rd EXCEPT !.closeCalls = rd.closeCalls + 1],
        pending |-> tr.pending, calls |-> <<"close">>,
        attached |-> env.attach, outcome |-> "returned"]

\* Drop for JReaderInputStream
AdapterDrop(rd, pend, env) ==
    IF env.attach
    THEN LET tr == jni_check_exception(pend \/ env.closeThrows)
         IN [rd |-> [rd EXCEPT !.closeCalls = rd.closeCalls + 1],
             pending |-> tr.pending, calls |-> <<"close">>,
             attached |-> TRUE, outcome |-> "returned"]
    ELSE [rd |-> rd, pending |-> pend, calls |-> <<>>, attached |-> FALSE,
          outcome |-> "returned"]

NoReader == [content |-> <<>>, pos |-> 0, closeCalls |-> 0]

\* `last`: the operation, its result (ok, n), what the foreign read
\* reported, whether the thread was attached, what the environment did
\* (env), whether an exception was pending when it began, how it ended, and
\* whether the foreign reader had reported end of stream before it
NoLast == [op |-> "none", ok |-> TRUE, n |-> NoCount, report |-> NoReport,
           attached |-> FALSE, env |-> [fail |-> "none", adv |-> 0],
           pendBefore |-> FALSE, outcome |-> "returned", afterEos |-> FALSE]

NoHist == [eos |-> FALSE, eosReads |-> 0, lossy |-> FALSE, chunks |-> 0]

NoBuf == [len |-> [q |-> 0, r |-> 0], data |-> <<>>, fill |-> 0]

\* JReaderInputStream::new: the caller wraps the reader it was handed
NewAdapter ==
    /\ rdrRes.kind = "Ok"
    /\ adapter = "none"
    /\ adapter' = "live"
    /\ reader' = [content |-> rdrRes.content, pos |-> 0, closeCalls |-> 0]
    /\ UNCHANGED <<envelope, pending, calls, strRes, rdrRes, buf, last,
                   collected, hist, configVars>>

\* one call of read by the consumer, which appends the bytes it was given
Read(len, fill, env) ==
    /\ adapter = "live"
    /\ hist.eosReads < MaxEosReads
    /\ LET o == AdapterRead(reader, FreshBuf(len, fill), pending, env)
       IN /\ reader' = o.rd
          /\ buf' = [len |-> len, data |-> o.data, fill |-> fill]
          /\ pending' = o.pending
          /\ calls' = [op |-> "read", seq |-> o.calls,
                       failAt |-> IF env.fail = "throw" THEN "read"
                                  ELSE IF env.fail = "alloc"
                                  THEN "new_byte_array" ELSE "none"]
          /\ last' = [op |-> "read", ok |-> o.ok, n |-> o.n,
                      report |-> o.report, attached |-> o.attached,
                      env |-> env, pendBefore |-> pending,
                      outcome |-> "returned", afterEos |-> hist.eos]
          /\ collected' = IF o.ok /\ ~o.n.wrap
                          THEN collected \o SubSeq(o.data, 1, o.n.v)
                          ELSE collected
          /\ hist' = [eos |-> hist.eos \/ o.report = <<-1>>,
                      eosReads |-> IF hist.eos THEN hist.eosReads + 1
                                   ELSE hist.eosReads,
                      \* a read that stopped at the foreign call raised
                      lossy |-> hist.lossy \/ Len(o.calls) = 2,
                      chunks |-> IF o.ok /\ o.n.v > 0 THEN hist.chunks + 1
                                 ELSE hist.chunks]
    /\ UNCHANGED <<envelope, strRes, rdrRes, adapter, configVars>>

Drop(env) ==
    /\ adapter = "live"
    /\ LET o == AdapterDrop(reader, pending, env)
       IN /\ reader' = o.rd
          /\ pending' = o.pending
          /\ calls' = [op |-> "drop", seq |-> o.calls,
                       failAt |-> IF env.closeThrows THEN "close"
                                  ELSE "none"]
          /\ last' = [op |-> "drop", ok |-> TRUE, n |-> NoCount,
                      report |-> NoReport, attached |-> o.attached,
                      env |-> env, pendBefore |-> pending,
                      outcome |-> o.outcome, afterEos |-> hist.eos]
    /\ adapter' = "dropped"
    /\ UNCHANGED <<envelope, strRes, rdrRes, buf, collected, hist,
                   configVars>>

\* read_to_end's loop has ended: a read returned Ok(0) or an error
ConsumerFinished ==
    /\ last.op = "read"
    /\ ~last.ok \/ (~last.n.wrap /\ last.n.v = 0)

\* One turn of a consumer that reads, with a buffer that is not empty,
\* until a read returns zero; the environment does not fail.
ConsumerRead(len, fill) ==
    /\ ~ConsumerFinished
    /\ len # [q |-> 0, r |-> 0]
    /\ Read(len, fill, [fail |-> "none", adv |-> 0])

\* the jint a foreign read(byte[], int, int) can hand back when nothing is
\* assumed of the object behind the reader reference
Reports == (0 - (MaxBuf + 1))..(MaxBuf + 1)

\* JReaderInputStream::read over a foreign read that reports `report` and
\* stores nothing
ReadReported(len, fill, report) ==
    /\ adapter = "live"
    /\ LET b == FreshBuf(len, fill)
           o == AdapterReadFrom(reader, b, pending,
                                [fail |-> "none", adv |-> 0],
                                [report |-> report,
                                 array |-> new_byte_array(AsJsize(len)),
                                 rd |-> reader])
       IN /\ reader' = o.rd
          /\ buf' = [len |-> len, data |-> o.data, fill |-> fill]
          /\ pending' = o.pending
          /\ calls' = [op |-> "read", seq |-> o.calls, failAt |-> "none"]
          /\ last' = [op |-> "read", ok |-> o.ok, n |-> o.n,
                      report |-> o.report, attached |-> o.attached,
                      env |-> [fail |-> "none", adv |-> 0],
                      pendBefore |-> pending,
                      outcome |-> "returned", afterEos |-> hist.eos]
    /\ UNCHANGED <<envelope, strRes, rdrRes, adapter, collected, hist,
                   configVars>>


\* ------------------------------------------------------------------------
\* Config projectors
\* ------------------------------------------------------------------------

\* PdfOcrStrategy and the spelling its to_string gives (a host String)
OcrStrategies == {"NO_OCR", "OCR_ONLY", "OCR_AND_TEXT_EXTRACTION", "AUTO"}

to_string(strategy) ==
    CASE strategy = "NO_OCR" -> <<78, 79, 95, 79, 67, 82>>
      [] strategy = "OCR_ONLY" -> <<79, 67, 82, 95, 79, 78, 76, 89>>
      [] strategy = "OCR_AND_TEXT_EXTRACTION" ->
            <<79, 67, 82, 95, 65, 78, 68, 95, 84, 69, 88, 84, 95, 69, 88,
              84, 82, 65, 67, 84, 73, 79, 78>>
      [] strategy = "AUTO" -> <<65, 85, 84, 79>>

\* the foreign OCR_STRATEGY constant whose name a foreign string spells
ParseOcrStrategy(jstr) ==
    CHOOSE c \in OcrStrategies : Utf8Decode(to_string(c)) = jstr

\* i32 values of the OCR integers
OcrInts == {0, 300}

PdfConfigs ==
    [extract_inline_images : BOOLEAN,
     extract_unique_inline_images_only : BOOLEAN,
     extract_marked_content : BOOLEAN,
     extract_annotation_text : BOOLEAN,
     ocr_strategy : OcrStrategies]

OfficeConfigs ==
    [extract_macros : BOOLEAN,
     include_deleted_content : BOOLEAN,
     include_move_from_content : BOOLEAN,
     include_shape_based_content : BOOLEAN,
     include_headers_and_footers : BOOLEAN,
     include_missing_rows : BOOLEAN,
     include_slide_notes : BOOLEAN,
     include_slide_master_content : BOOLEAN,
     concatenate_phonetic_runs : BOOLEAN,
     extract_all_alternatives_from_msg : BOOLEAN]

OcrConfigs ==
    [density : OcrInts,
     depth : OcrInts,
     timeout_seconds : OcrInts,
     enable_image_preprocessing : BOOLEAN,
     apply_rotation : BOOLEAN,
     language : {Utf8Encode(t) : t \in Texts}]

Setter(name, field, conv) == [setter |-> name, field |-> field, conv |-> conv]

\* the setter calls of JPDFParserConfig::new, in order
PdfSetters ==
    << Setter("setExtractInlineImages", "extract_inline_images", "bool"),
       Setter("setExtractUniqueInlineImagesOnly",
              "extract_unique_inline_images_only", "bool"),
       Setter("setExtractMarkedContent", "extract_marked_content", "bool"),
       Setter("setExtractAnnotationText", "extract_annotation_text", "bool"),
       Setter("setOcrStrategy", "ocr_strategy", "enum") >>

\* mutant: the call for slide notes repeats the setter of the line above it
OfficeSetters_Repeated ==
    << Setter("setExtractMacros", "extract_macros", "bool"),
       Setter("setIncludeDeletedContent", "include_deleted_content", "bool"),
       Setter("setIncludeMoveFromContent", "include_move_from_content",
              "bool"),
       Setter("setIncludeShapeBasedContent", "include_shape_based_content",
              "bool"),
       Setter("setIncludeHeadersAndFooters", "include_headers_and_footers",
              "bool"),
       Setter("setIncludeMissingRows", "include_missing_rows", "bool"),
       Setter("setIncludeMissingRows", "include_slide_notes", "bool"),
       Setter("setIncludeSlideMasterContent", "include_slide_master_content",
              "bool"),
       Setter("setConcatenatePhoneticRuns", "concatenate_phonetic_runs",
              "bool"),
       Setter("setExtractAllAlternativesFromMSG",
              "extract_all_alternatives_from_msg", "bool") >>

\* the setter calls of JOfficeParserConfig::new, in order
OfficeSetters ==
    << Setter("setExtractMacros", "extract_macros", "bool"),
       Setter("setIncludeDeletedContent", "include_deleted_content", "bool"),
       Setter("setIncludeMoveFromContent", "include_move_from_content",
              "bool"),
       Setter("setIncludeShapeBasedContent", "include_shape_based_content",
              "bool"),
       Setter("setIncludeHeadersAndFooters", "include_headers_and_footers",
              "bool"),
       Setter("setIncludeMissingRows", "include_missing_rows", "bool"),
       Setter("setIncludeSlideNotes", "include_slide_notes", "bool"),
       Setter("setIncludeSlideMasterContent", "include_slide_master_content",
              "bool"),
       Setter("setConcatenatePhoneticRuns", "concatenate_phonetic_runs",
              "bool"),
       Setter("setExtractAllAlternativesFromMSG",
              "extract_all_alternatives_from_msg", "bool") >>

\* mutant: density and depth are handed to each other's setter
OcrSetters_Swapped ==
    << Setter("setDensity", "depth", "int"),
       Setter("setDepth", "density", "int"),
       Setter("setTimeoutSeconds", "timeout_seconds", "int"),
       Setter("setEnableImagePreprocessing", "enable_image_preprocessing",
              "bool"),
       Setter("setApplyRotation", "apply_rotation", "bool"),
       Setter("setLanguage", "language", "string") >>

\* the setter calls of JTesseractOcrConfig::new, in order
OcrSetters ==
    << Setter("setDensity", "density", "int"),
       Setter("setDepth", "depth", "int"),
       Setter("setTimeoutSeconds", "timeout_seconds", "int"),
       Setter("setEnableImagePreprocessing", "enable_image_preprocessing",
              "bool"),
       Setter("setApplyRotation", "apply_rotation", "bool"),
       Setter("setLanguage", "language", "string") >>

\* The foreign classes: the property each setter stores into
SetterProperty ==
    [setExtractInlineImages |-> "extractInlineImages",
     setExtractUniqueInlineImagesOnly |-> "extractUniqueInlineImagesOnly",
     setExtractMarkedContent |-> "extractMarkedContent",
     setExtractAnnotationText |-> "extractAnnotationText",
     setOcrStrategy |-> "ocrStrategy",
     setExtractMacros |-> "extractMacros",
     setIncludeDeletedContent |-> "includeDeletedContent",
     setIncludeMoveFromContent |-> "includeMoveFromContent",
     setIncludeShapeBasedContent |-> "includeShapeBasedContent",
     setIncludeHeadersAndFooters |-> "includeHeadersAndFooters",
     setIncludeMissingRows |-> "includeMissingRows",
     setIncludeSlideNotes |-> "includeSlideNotes",
     setIncludeSlideMasterContent |-> "includeSlideMasterContent",
     setConcatenatePhoneticRuns |-> "concatenatePhoneticRuns",
     setExtractAllAlternativesFromMSG |-> "extractAllAlternativesFromMSG",
     setDensity |-> "density",
     setDepth |-> "depth",
     setTimeoutSeconds |-> "timeoutSeconds",
     setEnableImagePreprocessing |-> "enableImagePreprocessing",
     setApplyRotation |-> "applyRotation",
     setLanguage |-> "language"]

\* The foreign objects as their zero-argument constructors leave them
PdfDefaults ==
    [extractInlineImages |-> FALSE,
     extractUniqueInlineImagesOnly |-> TRUE,
     extractMarkedContent |-> FALSE,
     extractAnnotationText |-> TRUE,
     ocrStrategy |-> "AUTO"]

OfficeDefaults ==
    [extractMacros |-> FALSE,
     includeDeletedContent |-> FALSE,
     includeMoveFromContent |-> FALSE,
     includeShapeBasedContent |-> TRUE,
     includeHeadersAndFooters |-> TRUE,
     includeMissingRows |-> FALSE,
     includeSlideNotes |-> TRUE,
     includeSlideMasterContent |-> TRUE,
     concatenatePhoneticRuns |-> TRUE,
     extractAllAlternativesFromMSG |-> FALSE]

OcrDefaults ==
    [density |-> 300,
     depth |-> 0,
     timeoutSeconds |-> 300,
     enableImagePreprocessing |-> TRUE,
     applyRotation |-> FALSE,
     language |-> <<>>]

\* A foreign setter: stores its argument; setOcrStrategy(String) stores the
\* constant the string names
InvokeSetter(obj, setter, arg) ==
    IF setter = "setOcrStrategy"
    THEN [obj EXCEPT !["ocrStrategy"] = ParseOcrStrategy(arg)]
    ELSE [obj EXCEPT ![SetterProperty[setter]] = arg]

\* The JValue a setter call is given: JValue::from(config.field), or the
\* foreign string made of the field
SetterArg(s, config) ==
    IF s.conv = "enum"
    THEN jni_new_string_as_jvalue(to_string(config[s.field]))
    ELSE IF s.conv = "string"
    THEN jni_new_string_as_jvalue(config[s.field])
    ELSE config[s.field]

StringStep(s) ==
    IF s.conv \in {"enum", "string"}
    THEN <<"jni_new_string_as_jvalue">> ELSE <<>>

\* mutant: a failing setter call is ignored and the next ones are made
RECURSIVE CallSetters_IgnoreErrors(_, _, _, _)
CallSetters_IgnoreErrors(obj, setters, config, failAt) ==
    IF setters = <<>>
    THEN [obj |-> obj, calls |-> <<>>, failed |-> FALSE]
    ELSE LET s == Head(setters)
             next == IF failAt = s.setter THEN obj
                     ELSE InvokeSetter(obj, s.setter, SetterArg(s, config))
             rest == CallSetters_IgnoreErrors(next, Tail(setters), config,
                                              failAt)
         IN [obj |-> rest.obj,
             calls |-> StringStep(s) \o <<s.setter>> \o rest.calls,
             failed |-> rest.failed]

\* `env.call_method(&obj, setter, sig, &[arg])?;` for each setter in turn:
\* the first failure returns, nothing after it is called
RECURSIVE CallSetters(_, _, _, _)
CallSetters(obj, setters, config, failAt) ==
    IF setters = <<>>
    THEN [obj |-> obj, calls |-> <<>>, failed |-> FALSE]
    ELSE LET s == Head(setters)
         IN IF StringStep(s) # <<>> /\ failAt = "jni_new_string_as_jvalue"
            THEN [obj |-> obj, calls |-> StringStep(s), failed |-> TRUE]
            ELSE IF failAt = s.setter
            THEN [obj |-> obj, calls |-> StringStep(s) \o <<s.setter>>,
                  failed |-> TRUE]
            ELSE LET rest == CallSetters(
                                 InvokeSetter(obj, s.setter,
                                              SetterArg(s, config)),
                                 Tail(setters), config, failAt)
                 IN [obj |-> rest.obj,
                     calls |-> StringStep(s) \o <<s.setter>> \o rest.calls,
                     failed |-> rest.failed]

Projected(seq, kind, internal) ==
    [calls |-> seq, kind |-> kind, internal |-> internal]

\* find_class, new_object, the setters, Ok(Self { internal: obj })
Project(setters, defaults, config, failAt) ==
    IF failAt = "find_class"
    THEN Projected(<<"find_class">>, "JniError", <<>>)
    ELSE IF failAt = "new_object"
    THEN Projected(<<"find_class", "new_object">>, "JniError", <<>>)
    ELSE LET r == CallSetters(defaults, setters, config, failAt)
         IN IF r.failed
            THEN Projected(<<"find_class", "new_object">> \o r.calls,
                           "JniError", <<>>)
            ELSE Projected(<<"find_class", "new_object">> \o r.calls,
                           "Ok", <<r.obj>>)

JPDFParserConfig_new(config, failAt) ==
    Project(PdfSetters, PdfDefaults, config, failAt)

JOfficeParserConfig_new(config, failAt) ==
    Project(OfficeSetters, OfficeDefaults, config, failAt)

JTesseractOcrConfig_new(config, failAt) ==
    Project(OcrSetters, OcrDefaults, config, failAt)

SetterNames(setters) == {setters[i].setter : i \in 1..Len(setters)}

ProjectFailures(setters) ==
    {"none", "find_class", "new_object", "jni_new_string_as_jvalue"}
    \cup SetterNames(setters)

NoConfigResult == [kind |-> "none", internal |-> <<>>]

Projection(op, o, failAt, how) ==
    /\ cfgRes = NoConfigResult
    /\ cfgRes' = [kind |-> o.kind, internal |-> o.internal]
    /\ calls' = [op |-> op, seq |-> o.calls, failAt |-> failAt]
    /\ pending' = (pending \/ (o.kind = "JniError" /\ how = "exception"))
    /\ UNCHANGED <<bridgeVars, cfgKind, hostCfg>>

ProjectPdf(failAt, how) ==
    /\ cfgKind = "pdf"
    /\ Projection("JPDFParserConfig::new",
                  JPDFParserConfig_new(hostCfg, failAt), failAt, how)

ProjectOffice(failAt, how) ==
    /\ cfgKind = "office"
    /\ Projection("JOfficeParserConfig::new",
                  JOfficeParserConfig_new(hostCfg, failAt), failAt, how)

ProjectOcr(failAt, how) ==
    /\ cfgKind = "ocr"
    /\ Projection("JTesseractOcrConfig::new",
                  JTesseractOcrConfig_new(hostCfg, failAt), failAt, how)

\* ------------------------------------------------------------------------
\* Specifications
\* ------------------------------------------------------------------------

\* One streaming extraction: the envelope of a document is unwrapped by the
\* reader unwrapper, the stream is read by a consumer and dropped.
Init ==
    /\ envelope \in Envelopes
    /\ pending = FALSE
    /\ calls = NoCalls
    /\ strRes = NoResult
    /\ rdrRes = NoResult
    /\ adapter = "none"
    /\ reader = NoReader
    /\ buf = NoBuf
    /\ last = NoLast
    /\ collected = <<>>
    /\ hist = NoHist
    /\ cfgKind = "none"
    /\ hostCfg = <<>>
    /\ cfgRes = NoConfigResult

Next ==
    \/ \E f \in UnwrapCalls \cup {"none"}, how \in FailKinds :
          ReaderNew(f, how)
    \/ NewAdapter
    \/ \E len \in BufLens, fill \in Fill, env \in ReadEnvs :
          Read(len, fill, env)
    \/ \E env \in DropEnvs : Drop(env)

Spec == Init /\ [][Next]_vars

\* One projection of a host configuration struct.
InitConfig ==
    /\ envelope = [isError |-> FALSE, status |-> 0, msg |-> <<>>,
                   content |-> <<>>]
    /\ pending = FALSE
    /\ calls = NoCalls
    /\ strRes = NoResult
    /\ rdrRes = NoResult
    /\ adapter = "none"
    /\ reader = NoReader
    /\ buf = NoBuf
    /\ last = NoLast
    /\ collected = <<>>
    /\ hist = NoHist
    /\ cfgRes = NoConfigResult
    /\ \/ cfgKind = "pdf" /\ hostCfg \in PdfConfigs
       \/ cfgKind = "office" /\ hostCfg \in OfficeConfigs
       \/ cfgKind = "ocr" /\ hostCfg \in OcrConfigs

NextConfig ==
    \/ \E f \in ProjectFailures(PdfSetters), how \in FailKinds :
          ProjectPdf(f, how)
    \/ \E f \in ProjectFailures(OfficeSetters), how \in FailKinds :
          ProjectOffice(f, how)
    \/ \E f \in ProjectFailures(OcrSetters), how \in FailKinds :
          ProjectOcr(f, how)

SpecConfig == InitConfig /\ [][NextConfig]_vars

\* The two unwrappers applied to one envelope.
NextUnwrap ==
    \/ \E f \in UnwrapCalls \cup {"none"}, how \in FailKinds :
          StringNew(f, how)
    \/ \E f \in UnwrapCalls \cup {"none"}, how \in FailKinds :
          ReaderNew(f, how)

SpecUnwrap == Init /\ [][NextUnwrap]_vars

\* The adapter over a reader of which nothing is assumed.
NextAnyReport ==
    \/ \E f \in UnwrapCalls \cup {"none"}, how \in FailKinds :
          ReaderNew(f, how)
    \/ NewAdapter
    \/ \E len \in BufLens, fill \in Fill, report \in Reports :
          ReadReported(len, fill, report)
    \/ \E env \in DropEnvs : Drop(env)

SpecAnyReport == Init /\ [][NextAnyReport]_vars

\* A consumer reading the stream to its end. Its loop keeps calling read
\* until it is finished, hence the weak fairness of its turn.
ConsumerStep == \E len \in BufLens, fill \in Fill : ConsumerRead(len, fill)

NextConsume ==
    \/ \E f \in UnwrapCalls \cup {"none"}, how \in FailKinds :
          ReaderNew(f, how)
    \/ NewAdapter
    \/ ConsumerStep

SpecConsume == Init /\ [][NextConsume]_vars /\ WF_vars(ConsumerStep)


\* ------------------------------------------------------------------------
\* Properties
\* ------------------------------------------------------------------------

\* the unwrapper that ran last met no failing foreign call on the error path
NoFailureOnErrorPath == calls.failAt \in {"none", "getContent", "getReader"}

ErrorEnvelopeMapped(res) ==
    /\ (envelope.status = 1 => res.kind = "IoError")
    /\ (envelope.status = 2 => res.kind = "ParseError")
    /\ (envelope.status \notin {1, 2} => res.kind = "Unknown")
    /\ Utf8Decode(res.msg) = envelope.msg
    /\ res.content = <<>>

\* C1: for both unwrappers, an envelope whose isError is true yields IoError
\* for status 1, ParseError for status 2 and Unknown for any other status,
\* and the error carries the envelope's message unchanged (every foreign call
\* of the unwrapper having succeeded).
C1_ErrorEnvelopeYieldsTypedError ==
    (envelope.isError /\ NoFailureOnErrorPath) =>
        /\ (calls.op = "JStringResult::new" => ErrorEnvelopeMapped(strRes))
        /\ (calls.op = "JReaderResult::new" => ErrorEnvelopeMapped(rdrRes))

C1_Witness ==
    /\ envelope.isError
    /\ envelope.status = 99
    /\ Len(envelope.msg) >= 2
    /\ envelope.msg[1] = 233
    /\ calls.op = "JReaderResult::new"
    /\ NoFailureOnErrorPath
    /\ rdrRes.kind = "Unknown"
    /\ strRes.kind = "Unknown"

\* the last read got as far as a foreign read that returned: the thread
\* attached, the byte array was allocated and the foreign read did not raise
ForeignReadReturned ==
    /\ last.op = "read"
    /\ last.env.fail = "none"
    /\ ~last.pendBefore
    /\ AsJsize(buf.len) >= 0

CountIs(c, k) == ~c.wrap /\ c.v = k

NonEmptyBuffer == buf.len # [q |-> 0, r |-> 0]

\* C3 (as claimed): a successful read returns 0 when the foreign read
\* reported -1 and otherwise the count it reported; so with a non-empty
\* buffer a read returns 0 only when the foreign reader reported end of
\* stream.
C3_ZeroOnlyAtEndOfStream ==
    (last.op = "read" /\ last.ok) =>
        /\ (last.report = <<-1>> => CountIs(last.n, 0))
        /\ (last.report # <<-1>> => last.report = <<last.n.v>> /\ ~last.n.wrap)
        /\ ((NonEmptyBuffer /\ CountIs(last.n, 0)) => last.report = <<-1>>)

\* what one read with a buffer as long as the whole content returns
SingleRead(content) ==
    LET o == AdapterRead([content |-> content, pos |-> 0, closeCalls |-> 0],
                         FreshBuf([q |-> 0, r |-> Len(content)], 170),
                         FALSE, [fail |-> "none", adv |-> 0])
    IN SubSeq(o.data, 1, o.n.v)

\* C4: the bytes of repeated reads, whatever their buffer sizes, joined in
\* order up to end of stream equal the bytes of a single read with a buffer
\* sized to the whole content (no foreign read having raised in between).
C4_ChunkedReadsEqualSingleRead ==
    (hist.eos /\ ~hist.lossy) => collected = SingleRead(reader.content)

C4_Witness ==
    /\ hist.eos
    /\ ~hist.lossy
    /\ hist.chunks >= 2
    /\ buf.len.q = 0
    /\ Len(collected) >= 3
    /\ collected = SingleRead(reader.content)

\* C5: for one document, the text of the string path (JStringResult::new on
\* its envelope) and the bytes of the streaming path (JReaderResult::new,
\* then reads joined up to end of stream) are byte-identical.
C5_StringPathEqualsStreamPath ==
    (hist.eos /\ ~hist.lossy) =>
        LET s == JStringResult_new(envelope, "none")
        IN s.res.kind = "Ok" /\ collected = s.res.content

C5_Witness ==
    /\ hist.eos
    /\ ~hist.lossy
    /\ hist.chunks >= 2
    /\ rdrRes.kind = "Ok"
    /\ Len(envelope.content) >= 2
    /\ envelope.content[1] = 233
    /\ collected = JStringResult_new(envelope, "none").res.content

\* C6: dropping the adapter at any point returns normally; when the thread
\* attaches close is called exactly once and its failure is swallowed, when
\* attachment fails close is not called.
C6_DropNeverFails ==
    /\ (adapter # "dropped" => reader.closeCalls = 0)
    /\ (adapter = "dropped" =>
           /\ last.op = "drop"
           /\ last.outcome = "returned"
           /\ (last.env.attach =>
                  reader.closeCalls = 1 /\ calls.seq = <<"close">>)
           /\ (~last.env.attach =>
                  reader.closeCalls = 0 /\ calls.seq = <<>>))

C6_Witness ==
    /\ adapter = "dropped"
    /\ last.env.attach
    /\ last.env.closeThrows
    /\ hist.chunks >= 1
    /\ ~hist.eos
    /\ reader.closeCalls = 1
    /\ last.outcome = "returned"

\* C7 (as claimed): after every bridge operation has returned, on success
\* and on every failure path, the foreign environment has no pending
\* exception.
C7_NoPendingExceptionAfterReturn ==
    calls.op # "none" => ~pending

\* C8: when the foreign read raises, read clears the pending exception and
\* returns a failure, issuing no copy: the caller's buffer is as it was.
C8_RaisedReadFailsAndClears ==
    (last.op = "read" /\ last.env.fail = "throw" /\ ~last.pendBefore
        /\ AsJsize(buf.len) >= 0) =>
        /\ ~last.ok
        /\ ~pending
        /\ calls.seq = <<"new_byte_array", "read">>
        /\ buf.data = FreshBuf(buf.len, buf.fill).data

C8_Witness ==
    /\ last.op = "read"
    /\ last.env.fail = "throw"
    /\ ~last.pendBefore
    /\ buf.len = [q |-> 0, r |-> 2]
    /\ ~last.ok
    /\ ~pending
    /\ hist.chunks >= 1

ProjectorOps == {"JPDFParserConfig::new", "JOfficeParserConfig::new",
                 "JTesseractOcrConfig::new"}

SettersOf(kind) ==
    IF kind = "pdf" THEN PdfSetters
    ELSE IF kind = "office" THEN OfficeSetters ELSE OcrSetters

\* the call the environment fails is one the projector of cfgKind makes
ProjectionStepFails ==
    \/ calls.failAt \in {"find_class", "new_object"}
    \/ calls.failAt \in SetterNames(SettersOf(cfgKind))
    \/ calls.failAt = "jni_new_string_as_jvalue" /\ cfgKind \in {"pdf", "ocr"}

\* C9: if class lookup, construction, a string conversion or a setter call
\* fails, the projection returns a failure, the failing call is the last
\* call made, and no foreign object is handed back.
C9_NoPartialApplication ==
    (calls.op \in ProjectorOps /\ ProjectionStepFails) =>
        /\ cfgRes.kind = "JniError"
        /\ cfgRes.internal = <<>>
        /\ calls.seq[Len(calls.seq)] = calls.failAt
        /\ \A i \in 1..(Len(calls.seq) - 1) : calls.seq[i] # calls.failAt

C9_Witness ==
    /\ calls.op = "JOfficeParserConfig::new"
    /\ calls.failAt = "setIncludeMissingRows"
    /\ Len(calls.seq) = 8
    /\ cfgRes.kind = "JniError"
    /\ cfgRes.internal = <<>>
    /\ hostCfg.include_slide_notes

\* the host field that each foreign property corresponds to
HostFieldOf ==
    [extractInlineImages |-> "extract_inline_images",
     extractUniqueInlineImagesOnly |-> "extract_unique_inline_images_only",
     extractMarkedContent |-> "extract_marked_content",
     extractAnnotationText |-> "extract_annotation_text",
     ocrStrategy |-> "ocr_strategy",
     extractMacros |-> "extract_macros",
     includeDeletedContent |-> "include_deleted_content",
     includeMoveFromContent |-> "include_move_from_content",
     includeShapeBasedContent |-> "include_shape_based_content",
     includeHeadersAndFooters |-> "include_headers_and_footers",
     includeMissingRows |-> "include_missing_rows",
     includeSlideNotes |-> "include_slide_notes",
     includeSlideMasterContent |-> "include_slide_master_content",
     concatenatePhoneticRuns |-> "concatenate_phonetic_runs",
     extractAllAlternativesFromMSG |-> "extract_all_alternatives_from_msg",
     density |-> "density",
     depth |-> "depth",
     timeoutSeconds |-> "timeout_seconds",
     enableImagePreprocessing |-> "enable_image_preprocessing",
     applyRotation |-> "apply_rotation",
     language |-> "language"]

DefaultsOf(kind) ==
    IF kind = "pdf" THEN PdfDefaults
    ELSE IF kind = "office" THEN OfficeDefaults ELSE OcrDefaults

\* what the getter of a property returns, as a host value: a foreign string
\* as the host String of the same text, anything else as it is
GetterValue(obj, prop) ==
    IF prop = "language" THEN Utf8Encode(obj[prop]) ELSE obj[prop]

\* C10: after a successful projection every property of the foreign object
\* holds the value of the host field it corresponds to.
C10_FieldsRoundTrip ==
    (calls.op \in ProjectorOps /\ cfgRes.kind = "Ok") =>
        LET obj == cfgRes.internal[1]
        IN /\ DOMAIN obj = DOMAIN DefaultsOf(cfgKind)
           /\ \A prop \in DOMAIN obj :
                 GetterValue(obj, prop) = hostCfg[HostFieldOf[prop]]

C10_Witness ==
    /\ calls.op = "JTesseractOcrConfig::new"
    /\ cfgRes.kind = "Ok"
    /\ hostCfg.density = 0
    /\ hostCfg.depth = 300
    /\ Len(hostCfg.language) >= 3
    /\ cfgRes.internal[1].density = 0
    /\ cfgRes.internal[1].depth = 300

UnwrapOps == {"JStringResult::new", "JReaderResult::new"}

Occurs(name, seq) == \E i \in 1..Len(seq) : seq[i] = name

\* the last unwrapper's result
UnwrapResult == IF calls.op = "JStringResult::new" THEN strRes ELSE rdrRes

PayloadGetter == IF calls.op = "JStringResult::new" THEN "getContent"
                 ELSE "getReader"

\* a foreign call of the last operation failed
CallFailed == Occurs(calls.failAt, calls.seq)

\* C12: each unwrapper calls isError first and once; when isError answered
\* true it goes on to getStatus and then getErrorMessage and never calls
\* getContent or getReader; when isError answered false its only method
\* call on the envelope is the payload getter, whose value is the success
\* value, and getStatus and getErrorMessage are never called.
C12_UnwrapperTakesOneBranch ==
    calls.op \in UnwrapOps =>
        /\ Len(calls.seq) >= 1
        /\ calls.seq[1] = "isError"
        /\ \A i \in 2..Len(calls.seq) : calls.seq[i] # "isError"
        /\ (calls.failAt # "isError" /\ envelope.isError) =>
              /\ ~Occurs("getContent", calls.seq)
              /\ ~Occurs("getReader", calls.seq)
              /\ calls.seq[2] = "getStatus"
              /\ (~CallFailed =>
                    /\ calls.seq[3] = "getErrorMessage"
                    /\ UnwrapResult.kind \notin {"Ok", "JniError"})
        /\ (calls.failAt # "isError" /\ ~envelope.isError) =>
              /\ ~Occurs("getStatus", calls.seq)
              /\ ~Occurs("getErrorMessage", calls.seq)
              /\ calls.seq[2] = PayloadGetter
              /\ ~Occurs(IF PayloadGetter = "getReader" THEN "getContent"
                         ELSE "getReader", calls.seq)
              /\ (~CallFailed =>
                    /\ UnwrapResult.kind = "Ok"
                    /\ calls.op = "JStringResult::new" =>
                          Utf8Decode(strRes.content) = envelope.content
                    /\ calls.op = "JReaderResult::new" =>
                          rdrRes.content = ReaderBytes(envelope.content))

C12_Witness ==
    /\ calls.op = "JReaderResult::new"
    /\ envelope.isError
    /\ ~CallFailed
    /\ Len(calls.seq) = 4
    /\ rdrRes.kind = "ParseError"

\* C13: when a foreign call made inside an unwrapper fails (isError,
\* getStatus, getErrorMessage, getContent, getReader or the string
\* conversion), the unwrapper returns the bridge-level failure, which is
\* none of IoError, ParseError and Unknown, whatever the envelope's error
\* flag and status are.
C13_FailedCallYieldsBridgeFailure ==
    (calls.op \in UnwrapOps /\ CallFailed) =>
        /\ UnwrapResult.kind = "JniError"
        /\ UnwrapResult.kind \notin {"IoError", "ParseError", "Unknown", "Ok"}

C13_Witness ==
    /\ calls.op = "JStringResult::new"
    /\ envelope.isError
    /\ envelope.status = 1
    /\ calls.failAt = "getErrorMessage"
    /\ CallFailed
    /\ strRes.kind = "JniError"

\* the methods of each foreign configuration class, in the order of the
\* projector's calls
PdfSetterOrder ==
    <<"setExtractInlineImages", "setExtractUniqueInlineImagesOnly",
      "setExtractMarkedContent", "setExtractAnnotationText",
      "setOcrStrategy">>

OfficeSetterOrder ==
    <<"setExtractMacros", "setIncludeDeletedContent",
      "setIncludeMoveFromContent", "setIncludeShapeBasedContent",
      "setIncludeHeadersAndFooters", "setIncludeMissingRows",
      "setIncludeSlideNotes", "setIncludeSlideMasterContent",
      "setConcatenatePhoneticRuns", "setExtractAllAlternativesFromMSG">>

OcrSetterOrder ==
    <<"setDensity", "setDepth", "setTimeoutSeconds",
      "setEnableImagePreprocessing", "setApplyRotation", "setLanguage">>

SetterOrderOf(kind) ==
    IF kind = "pdf" THEN PdfSetterOrder
    ELSE IF kind = "office" THEN OfficeSetterOrder
    ELSE OcrSetterOrder

SetterCountOf(kind) ==
    IF kind = "pdf" THEN 5 ELSE IF kind = "office" THEN 10 ELSE 6

IsForeignCall(name) == name # "jni_new_string_as_jvalue"

\* the calls on the foreign runtime's classes and objects, without the
\* conversions of host strings
ForeignCalls == SelectSeq(calls.seq, IsForeignCall)

TimesCalled(name, seq) == Cardinality({i \in 1..Len(seq) : seq[i] = name})

\* C14: a projection that returned Ok called find_class, then new_object,
\* then the setters of its class in one fixed order, each exactly once:
\* 5 for PDF, 10 for Office, 6 for OCR, as many as the host struct has
\* fields.
C14_SuccessCallsEverySetterOnce ==
    (calls.op \in ProjectorOps /\ cfgRes.kind = "Ok") =>
        /\ Len(ForeignCalls) = 2 + SetterCountOf(cfgKind)
        /\ ForeignCalls[1] = "find_class"
        /\ ForeignCalls[2] = "new_object"
        /\ TimesCalled("find_class", ForeignCalls) = 1
        /\ TimesCalled("new_object", ForeignCalls) = 1
        /\ SubSeq(ForeignCalls, 3, Len(ForeignCalls)) = SetterOrderOf(cfgKind)
        /\ \A i \in 1..Len(SetterOrderOf(cfgKind)) :
              TimesCalled(SetterOrderOf(cfgKind)[i], ForeignCalls) = 1
        /\ Cardinality(DOMAIN hostCfg) = SetterCountOf(cfgKind)

C14_Witness ==
    /\ calls.op = "JOfficeParserConfig::new"
    /\ cfgRes.kind = "Ok"
    /\ Len(calls.seq) = 12
    /\ hostCfg.include_slide_notes
    /\ ~hostCfg.include_missing_rows

\* attach_current_thread failed in the last read or drop
AttachFailed ==
    \/ last.op = "read" /\ last.env.fail = "attach"
    \/ last.op = "drop" /\ ~last.env.attach

C15_CallsOnlyWhileAttached ==
    last.op \in {"read", "drop"} =>
        /\ last.attached <=> ~AttachFailed
        /\ calls.seq # <<>> => last.attached
        /\ AttachFailed =>
              /\ calls.seq = <<>>
              /\ last.op = "read" => ~last.ok /\ last.n = NoCount
              /\ last.op = "drop" => reader.closeCalls = 0

C15_FailedAttachLeavesReader ==
    /\ (last'.op = "read" /\ last'.env.fail = "attach") =>
          /\ reader' = reader
          /\ pending' = pending
    /\ (last'.op = "drop" /\ ~last'.env.attach) =>
          /\ reader' = reader
          /\ pending' = pending

\* C15: every foreign call of read and drop is issued by an attached
\* thread; a read whose attachment fails returns a failure, issues no
\* foreign call and leaves the reader where it was, and a drop whose
\* attachment fails issues no close.
C15_AttachBeforeForeignCalls ==
    /\ []C15_CallsOnlyWhileAttached
    /\ [][C15_FailedAttachLeavesReader]_vars

C15_Witness ==
    /\ last.op = "read"
    /\ last.env.fail = "attach"
    /\ ~last.ok
    /\ calls.seq = <<>>
    /\ reader.pos > 0
    /\ reader.pos < Len(reader.content)

\* the i-th byte the foreign reader delivered to the last read, which
\* returned n of them and left the reader at reader.pos
Delivered(i) == U8(reader.content[(reader.pos - last.n.v) + i])

SuccessfulRead == last.op = "read" /\ last.ok /\ ~last.n.wrap

\* C16 (as claimed): a successful read that returns n changes only the
\* first n positions of the caller's buffer, which then hold the n
\* delivered bytes in order; positions n and above keep their previous
\* contents, and a read that reports end of stream leaves the whole buffer
\* unchanged.
C16_OnlyFirstPositionsChange ==
    SuccessfulRead =>
        /\ \A i \in 1..Len(buf.data) :
              IF i <= last.n.v THEN buf.data[i] = Delivered(i)
              ELSE buf.data[i] = buf.fill
        /\ last.report = <<-1>> =>
              \A i \in 1..Len(buf.data) : buf.data[i] = buf.fill

\* C16 (amended): a successful read that returns n stores the n delivered
\* bytes in order in the first n positions of the caller's buffer and
\* overwrites every further position below the length handed to the
\* foreign read (buf.len() as jsize) with zero, so a read at end of stream
\* zero-fills those positions; only positions at or above that length keep
\* their previous contents.
C16_ReadOverwritesPassedLength ==
    SuccessfulRead =>
        /\ last.n.v <= AsJsize(buf.len)
        /\ \A i \in 1..Len(buf.data) :
              IF i <= last.n.v THEN buf.data[i] = Delivered(i)
              ELSE IF i <= AsJsize(buf.len) THEN buf.data[i] = 0
              ELSE buf.data[i] = buf.fill

C16_Witness ==
    /\ SuccessfulRead
    /\ buf.len = [q |-> 0, r |-> 2]
    /\ CountIs(last.n, 1)
    /\ buf.data[1] = Delivered(1)
    /\ buf.data[1] > 127
    /\ buf.data[2] = 0
    /\ buf.fill # 0

\* a count of at most len bytes (len = q * 2^31 + r)
CountWithin(c, len) == ~c.wrap /\ (len.q > 0 \/ c.v <= len.r)

\* C17 (as claimed): the count of a successful read is never greater than
\* the length of the caller's buffer, for every buffer length and every
\* integer the foreign read reports.
C17_CountWithinBuffer ==
    (last.op = "read" /\ last.ok) => CountWithin(last.n, buf.len)

\* the reader's whole content as host bytes
ContentBytes == [i \in 1..Len(reader.content) |-> U8(reader.content[i])]

\* the consumer's loop ends
ConsumerTerminates == (adapter = "live") ~> ConsumerFinished

\* C11 (as claimed): a consumer that reads with a non-empty buffer until a
\* read returns zero ends without an error and has then collected exactly
\* the reader's content, in order.
C11_ReadToEndCollectsContent ==
    ConsumerFinished =>
        /\ last.ok
        /\ collected = ContentBytes

\* a consumer whose loop ended on the reader's end of stream has collected
\* the content
ConsumerCollectsAtEndOfStream ==
    (ConsumerFinished /\ hist.eos) =>
        /\ last.ok
        /\ collected = ContentBytes


====
